---- MODULE Spec2Model ----
\* Model of the prediction_market program
\* (src/programs/prediction_market/src/lib.rs): the Market / Pool / Position /
\* LPPosition accounts, the vault's lamports, and one action per instruction.
\*
\* Every handler is an operator from the accounts it is handed (a context
\* record) to a result record [err, ctx, out]: ctx is the in-memory account
\* state at the point where the handler returns, so a mutation made before a
\* failing check would be visible in the result of a failed call.  The actions
\* store that context back unconditionally.
\*
\* u64 amounts are modelled as naturals; the bounds below keep every product
\* far below 2^64, so the checked arithmetic of the program never overflows in
\* the states explored.  The system-program transfers are taken to succeed:
\* a signer holds the lamports it sends, and the vault's balance is the
\* collateral the handlers moved into it.  Account constraints evaluated
\* before a handler runs (init, seeds, an account that does not exist yet)
\* are guards of the actions.
EXTENDS Integers, FiniteSets, Sequences, TLC

\* ---------------------------------------------------------------- constants
BASIS_POINTS == 10000
LP_FEE_BPS == 30
MIN_LIQUIDITY == 1000
PRICE_DECIMALS == 1000000
MAX_TRADE_SIZE_BPS == 1000
RESOLUTION_DELAY == 300
MIN_SHARES_OUTPUT == 1000
MAX_ORACLE_STALENESS == 300
CREATION_STALENESS == 3600
MAX_DESCRIPTION_LEN == 128

\* ------------------------------------------------------------------- bounds
\* add_liquidity is explored while total_liquidity stays within this cap.
MaxTotalLiquidity == 20001
\* buy_shares / sell_shares are explored while total_fees_collected is below this.
MaxFees == 4
\* the clock is advanced up to this time.
MaxTime == 400

\* ------------------------------------------------------------------- inputs
Users == {"u1", "u2"}
Resolver == "u2"                      \* signer of resolve_market / delegate_market
NoKey == "default"                    \* Pubkey::default()
Sides == {"Yes", "No"}
None == {}                            \* Option::None; Some(v) is {v}
Some(v) == {v}

StrikePrices == {50000000}
Expirations == {0, 100}
MaxConfidences == {200000}
DescriptionLens == {128, 129}
InitialLiquidities == {999, 10000}
AddAmounts == {0, 18001}
MinLpTokens == {0, 18002}
RemoveLpTokens == {0, 10000, 18001, 20000}
MinAmountsOut == {0, 20001}
BuyAmounts == {0, 1000, 1200, 2001}
MinSharesOut == {0, 907, 908}
SellShareAmounts == {0, 800, 1070, 1071}
SellMinOut == {0, 5000}
TickSteps == {400}
OraclePrices == {49999999, 50000000, 51000000}
OracleConfs == {100000, 200001}
OracleAges == {0, 300, 301}

VARIABLES
    now,            \* Clock::get()?.unix_timestamp
    accounts,       \* which of the market / pool accounts have been initialised
    market,         \* the Market account
    pool,           \* the Pool account
    position,       \* user -> Position account (zeroed until first use)
    lp_position,    \* user -> LPPosition account (zeroed until first use)
    vault,          \* collateral held by the vault PDA
    paid,           \* user -> collateral paid to the position by claim_winnings
    won             \* user -> winning-side shares held when the market resolved

vars == <<now, accounts, market, pool, position, lp_position, vault, paid, won>>

\* ------------------------------------------------------------ zeroed accounts
ZeroMarket ==
    [authority |-> NoKey, strike_price |-> 0, expiration |-> 0,
     max_confidence |-> 0, status |-> "Active", outcome |-> None,
     resolution_price |-> None, resolution_timestamp |-> None,
     total_yes_shares |-> 0, total_no_shares |-> 0, description_len |-> 0]

ZeroPool ==
    [yes_reserve |-> 0, no_reserve |-> 0, total_liquidity |-> 0,
     total_fees_collected |-> 0, lp_token_supply |-> 0]

ZeroPosition ==
    [user |-> NoKey, yes_shares |-> 0, no_shares |-> 0, yes_avg_price |-> 0,
     no_avg_price |-> 0, claimed |-> FALSE]

ZeroLPPosition == [user |-> NoKey, lp_tokens |-> 0]

\* The accounts one instruction is handed by user u.
Ctx(u) == [market |-> market, pool |-> pool, position |-> position[u],
           lp_position |-> lp_position[u], vault |-> vault]

Ret(e, c, o) == [err |-> e, ctx |-> c, out |-> o]

\* ------------------------------------------------------------------ helpers
SaturatingSub(a, b) == IF a >= b THEN a - b ELSE 0

\* floor((a * b + c * d) / n) for a, c <= 10^6 and b + d <= n, evaluated in
\* pieces so that no intermediate exceeds 31 bits (the program uses u128).
WeightedMean(a, b, c, d, n) ==
    LET hi == (a \div 1000) * b + (c \div 1000) * d
        lo == (a % 1000) * b + (c % 1000) * d
    IN  (hi \div n) * 1000 + (((hi % n) * 1000 + lo) \div n)

\* floor(a * b / n) for b <= 10^6, evaluated the same way.
MulDiv(a, b, n) == WeightedMean(b, a, 0, 0, n)

\* Mutant: the age of the reading is not checked.
GetPriceNoOlderThan_AnyAge(reading, t, age) == reading

\* price_feed.get_price_no_older_than(now, age): None when the reading is
\* unavailable or |publish_time - now| > age.
GetPriceNoOlderThan(reading, t, age) ==
    IF reading = None THEN None
    ELSE LET r == CHOOSE x \in reading : TRUE
             d == IF r.publish_time >= t THEN r.publish_time - t
                  ELSE t - r.publish_time
         IN  IF d > age THEN None ELSE reading

OracleReadings(t) ==
    {None} \cup { Some([price |-> p, conf |-> c, publish_time |-> t - a]) :
                  p \in OraclePrices, c \in OracleConfs, a \in OracleAges }

\* ------------------------------------------------------------- create_market
CreateMarket(ctx, authority, strike_price, expiration, max_confidence, description_len, reading, t) ==
    IF ~(expiration > t) THEN Ret("InvalidExpiration", ctx, 0)
    ELSE IF ~(description_len <= MAX_DESCRIPTION_LEN)
    THEN Ret("DescriptionTooLong", ctx, 0)
    ELSE IF GetPriceNoOlderThan(reading, t, CREATION_STALENESS) = None
    THEN Ret("InvalidOraclePrice", ctx, 0)
    ELSE Ret("Ok",
             [ctx EXCEPT !.market =
                 [authority |-> authority, strike_price |-> strike_price,
                  expiration |-> expiration, max_confidence |-> max_confidence,
                  status |-> "Active", outcome |-> None,
                  resolution_price |-> None, resolution_timestamp |-> None,
                  total_yes_shares |-> 0, total_no_shares |-> 0,
                  description_len |-> description_len]],
             0)

\* ----------------------------------------------------------- initialize_pool
\* Mutant: initial_liquidity LP tokens are minted for a liquidity of twice
\* that.
InitializePool_SingleMint(ctx, authority, initial_liquidity) ==
    IF ~(initial_liquidity >= MIN_LIQUIDITY)
    THEN Ret("InsufficientLiquidity", ctx, 0)
    ELSE Ret("Ok",
             [ctx EXCEPT
                 !.vault = @ + initial_liquidity * 2,
                 !.pool = [yes_reserve |-> initial_liquidity,
                           no_reserve |-> initial_liquidity,
                           total_liquidity |-> initial_liquidity * 2,
                           total_fees_collected |-> 0,
                           lp_token_supply |-> initial_liquidity],
                 !.lp_position = [user |-> authority,
                                  lp_tokens |-> initial_liquidity]],
             initial_liquidity)

InitializePool(ctx, authority, initial_liquidity) ==
    IF ~(initial_liquidity >= MIN_LIQUIDITY)
    THEN Ret("InsufficientLiquidity", ctx, 0)
    ELSE Ret("Ok",
             [ctx EXCEPT
                 !.vault = @ + initial_liquidity * 2,
                 !.pool = [yes_reserve |-> initial_liquidity,
                           no_reserve |-> initial_liquidity,
                           total_liquidity |-> initial_liquidity * 2,
                           total_fees_collected |-> 0,
                           lp_token_supply |-> initial_liquidity * 2],
                 !.lp_position = [user |-> authority,
                                  lp_tokens |-> initial_liquidity * 2]],
             initial_liquidity * 2)

\* ------------------------------------------------------------- add_liquidity
\* Mutant: no special case for an empty pool.
LpTokensToMint_NoEmptyCase(amount, total_liquidity, total_lp_shares) ==
    (amount * total_lp_shares) \div
        (IF total_liquidity = 0 THEN 1 ELSE total_liquidity)

\* lines 157-161: LP tokens minted for a deposit.
LpTokensToMint(amount, total_liquidity, total_lp_shares) ==
    IF total_liquidity = 0 THEN amount
    ELSE (amount * total_lp_shares) \div total_liquidity

\* Mutant: both reserves receive floor(amount / 2).
AddLiquidity_EvenSplit(ctx, user, amount, min_lp_tokens) ==
    IF ctx.market.status # "Active" THEN Ret("MarketNotActive", ctx, 0)
    ELSE IF ~(amount > 0) THEN Ret("InvalidAmount", ctx, 0)
    ELSE
    LET p0 == ctx.pool
        lp_tokens_to_mint ==
            LpTokensToMint(amount, p0.total_liquidity, p0.lp_token_supply)
        half_amount == amount \div 2
    IN  IF ~(lp_tokens_to_mint >= min_lp_tokens)
        THEN Ret("SlippageExceeded", ctx, 0)
        ELSE Ret("Ok",
                 [ctx EXCEPT
                     !.vault = @ + amount,
                     !.pool.yes_reserve = @ + half_amount,
                     !.pool.no_reserve = @ + half_amount,
                     !.pool.total_liquidity = @ + amount,
                     !.pool.lp_token_supply = @ + lp_tokens_to_mint,
                     !.lp_position.lp_tokens = @ + lp_tokens_to_mint,
                     !.lp_position.user = IF @ = NoKey THEN user ELSE @],
                 lp_tokens_to_mint)

\* Mutant: the supply grows but the provider's LPPosition is not credited.
AddLiquidity_NoCredit(ctx, user, amount, min_lp_tokens) ==
    IF ctx.market.status # "Active" THEN Ret("MarketNotActive", ctx, 0)
    ELSE IF ~(amount > 0) THEN Ret("InvalidAmount", ctx, 0)
    ELSE
    LET p0 == ctx.pool
        lp_tokens_to_mint ==
            LpTokensToMint(amount, p0.total_liquidity, p0.lp_token_supply)
        half_amount == amount \div 2
    IN  IF ~(lp_tokens_to_mint >= min_lp_tokens)
        THEN Ret("SlippageExceeded", ctx, 0)
        ELSE Ret("Ok",
                 [ctx EXCEPT
                     !.vault = @ + amount,
                     !.pool.yes_reserve = @ + half_amount,
                     !.pool.no_reserve = @ + (amount - half_amount),
                     !.pool.total_liquidity = @ + amount,
                     !.pool.lp_token_supply = @ + lp_tokens_to_mint,
                     !.lp_position.user = IF @ = NoKey THEN user ELSE @],
                 lp_tokens_to_mint)

AddLiquidity(ctx, user, amount, min_lp_tokens) ==
    IF ctx.market.status # "Active" THEN Ret("MarketNotActive", ctx, 0)
    ELSE IF ~(amount > 0) THEN Ret("InvalidAmount", ctx, 0)
    ELSE
    LET p0 == ctx.pool
        lp_tokens_to_mint ==
            LpTokensToMint(amount, p0.total_liquidity, p0.lp_token_supply)
        half_amount == amount \div 2
    IN  IF ~(lp_tokens_to_mint >= min_lp_tokens)
        THEN Ret("SlippageExceeded", ctx, 0)
        ELSE Ret("Ok",
                 [ctx EXCEPT
                     !.vault = @ + amount,
                     !.pool.yes_reserve = @ + half_amount,
                     !.pool.no_reserve = @ + (amount - half_amount),
                     !.pool.total_liquidity = @ + amount,
                     !.pool.lp_token_supply = @ + lp_tokens_to_mint,
                     !.lp_position.lp_tokens = @ + lp_tokens_to_mint,
                     !.lp_position.user = IF @ = NoKey THEN user ELSE @],
                 lp_tokens_to_mint)

\* ---------------------------------------------------------- remove_liquidity
\* lines 224-225: collateral returned for burned LP tokens.
AmountOut(lp_tokens, total_liquidity, total_lp_shares) ==
    (lp_tokens * total_liquidity) \div total_lp_shares

\* Mutant: the LP tokens are burned before the slippage check.
RemoveLiquidity_BurnsFirst(ctx, user, lp_tokens, min_amount_out) ==
    IF ~(lp_tokens > 0) THEN Ret("InvalidAmount", ctx, 0)
    ELSE IF ~(ctx.lp_position.lp_tokens >= lp_tokens)
    THEN Ret("InsufficientShares", ctx, 0)
    ELSE IF ~(ctx.pool.lp_token_supply > 0)
    THEN Ret("InsufficientLiquidity", ctx, 0)
    ELSE
    LET p0 == ctx.pool
        amount_out == AmountOut(lp_tokens, p0.total_liquidity, p0.lp_token_supply)
        half_amount == amount_out \div 2
        burned == [ctx EXCEPT !.lp_position.lp_tokens = @ - lp_tokens]
    IN  IF ~(amount_out >= min_amount_out)
        THEN Ret("SlippageExceeded", burned, 0)
        ELSE IF ~(ctx.vault >= amount_out)
        THEN Ret("InsufficientVaultFunds", burned, 0)
        ELSE Ret("Ok",
                 [burned EXCEPT
                     !.vault = @ - amount_out,
                     !.pool.yes_reserve = SaturatingSub(@, half_amount),
                     !.pool.no_reserve = SaturatingSub(@, amount_out - half_amount),
                     !.pool.total_liquidity = SaturatingSub(@, amount_out),
                     !.pool.lp_token_supply = SaturatingSub(@, lp_tokens)],
                 amount_out)

\* Mutant: both reserves are decremented by floor(amount_out / 2).
RemoveLiquidity_EvenSplit(ctx, user, lp_tokens, min_amount_out) ==
    IF ~(lp_tokens > 0) THEN Ret("InvalidAmount", ctx, 0)
    ELSE IF ~(ctx.lp_position.lp_tokens >= lp_tokens)
    THEN Ret("InsufficientShares", ctx, 0)
    ELSE IF ~(ctx.pool.lp_token_supply > 0)
    THEN Ret("InsufficientLiquidity", ctx, 0)
    ELSE
    LET p0 == ctx.pool
        amount_out == AmountOut(lp_tokens, p0.total_liquidity, p0.lp_token_supply)
        half_amount == amount_out \div 2
    IN  IF ~(amount_out >= min_amount_out) THEN Ret("SlippageExceeded", ctx, 0)
        ELSE IF ~(ctx.vault >= amount_out)
        THEN Ret("InsufficientVaultFunds", ctx, 0)
        ELSE Ret("Ok",
                 [ctx EXCEPT
                     !.vault = @ - amount_out,
                     !.pool.yes_reserve = SaturatingSub(@, half_amount),
                     !.pool.no_reserve = SaturatingSub(@, half_amount),
                     !.pool.total_liquidity = SaturatingSub(@, amount_out),
                     !.pool.lp_token_supply = SaturatingSub(@, lp_tokens),
                     !.lp_position.lp_tokens = @ - lp_tokens],
                 amount_out)

RemoveLiquidity(ctx, user, lp_tokens, min_amount_out) ==
    IF ~(lp_tokens > 0) THEN Ret("InvalidAmount", ctx, 0)
    ELSE IF ~(ctx.lp_position.lp_tokens >= lp_tokens)
    THEN Ret("InsufficientShares", ctx, 0)
    ELSE IF ~(ctx.pool.lp_token_supply > 0)
    THEN Ret("InsufficientLiquidity", ctx, 0)
    ELSE
    LET p0 == ctx.pool
        amount_out == AmountOut(lp_tokens, p0.total_liquidity, p0.lp_token_supply)
        half_amount == amount_out \div 2
    IN  IF ~(amount_out >= min_amount_out) THEN Ret("SlippageExceeded", ctx, 0)
        ELSE IF ~(ctx.vault >= amount_out)
        THEN Ret("InsufficientVaultFunds", ctx, 0)
        ELSE Ret("Ok",
                 [ctx EXCEPT
                     !.vault = @ - amount_out,
                     !.pool.yes_reserve = SaturatingSub(@, half_amount),
                     !.pool.no_reserve = SaturatingSub(@, amount_out - half_amount),
                     !.pool.total_liquidity = SaturatingSub(@, amount_out),
                     !.pool.lp_token_supply = SaturatingSub(@, lp_tokens),
                     !.lp_position.lp_tokens = @ - lp_tokens],
                 amount_out)

\* -------------------------------------------------------- get_price_for_side
\* Mutant: the price of a side is taken from its own reserve.
GetPriceForSide_OwnReserve(p, side) ==
    LET total == p.yes_reserve + p.no_reserve
    IN  IF total = 0 THEN PRICE_DECIMALS \div 2
        ELSE IF side = "Yes" THEN MulDiv(p.yes_reserve, PRICE_DECIMALS, total)
        ELSE MulDiv(p.no_reserve, PRICE_DECIMALS, total)

GetPriceForSide(p, side) ==
    LET total == p.yes_reserve + p.no_reserve
    IN  IF total = 0 THEN PRICE_DECIMALS \div 2
        ELSE IF side = "Yes" THEN MulDiv(p.no_reserve, PRICE_DECIMALS, total)
        ELSE MulDiv(p.yes_reserve, PRICE_DECIMALS, total)

\* ---------------------------------------------------------------- buy_shares
\* Mutant: no fee is charged.
Fee_Zero(amount) == 0

\* Mutant: the fee is rounded up.
Fee_RoundUp(amount) == (amount * LP_FEE_BPS + BASIS_POINTS - 1) \div BASIS_POINTS

\* lines 298 and 436: the LP fee on an amount.
Fee(amount) == (amount * LP_FEE_BPS) \div BASIS_POINTS

\* Mutant: one positive reserve is enough.
PoolInitialized_EitherReserve(p) == p.yes_reserve > 0 \/ p.no_reserve > 0

\* lines 292-295 and 420-423: both reserves are positive.
PoolInitialized(p) == p.yes_reserve > 0 /\ p.no_reserve > 0

\* Mutant: the largest trade is rounded up.
MaxTradeSize_RoundUp(total_liquidity) ==
    (total_liquidity * MAX_TRADE_SIZE_BPS + BASIS_POINTS - 1) \div BASIS_POINTS

\* lines 288-291: the largest amount_in a buy may carry.
MaxTradeSize(total_liquidity) ==
    (total_liquidity * MAX_TRADE_SIZE_BPS) \div BASIS_POINTS

\* Mutant: the dust floor is not enforced.
OutputCheck_NoDustFloor(out, min_out) ==
    IF ~(out >= min_out) THEN "SlippageExceeded" ELSE "Ok"

\* lines 313-314 and 439-440: the slippage check, then the dust floor.
OutputCheck(out, min_out) ==
    IF ~(out >= min_out) THEN "SlippageExceeded"
    ELSE IF ~(out >= MIN_SHARES_OUTPUT) THEN "OutputTooSmall"
    ELSE "Ok"

\* Mutant: the output-side reserve is rounded up.
NewReserveOut_RoundUp(k, new_reserve_in) ==
    (k + new_reserve_in - 1) \div new_reserve_in

\* lines 310 and 433: the output-side reserve after a swap.
NewReserveOut(k, new_reserve_in) == k \div new_reserve_in

\* lines 297-311: the quote of a buy against pool p.
BuyQuote(p, side, amount_in) ==
    LET fee == Fee(amount_in)
        amount_after_fee == amount_in - fee
        reserve_in == IF side = "Yes" THEN p.no_reserve ELSE p.yes_reserve
        reserve_out == IF side = "Yes" THEN p.yes_reserve ELSE p.no_reserve
        k == reserve_in * reserve_out
        new_reserve_in == reserve_in + amount_after_fee
        new_reserve_out == NewReserveOut(k, new_reserve_in)
    IN  [fee |-> fee, new_reserve_in |-> new_reserve_in,
         new_reserve_out |-> new_reserve_out,
         shares_out |-> SaturatingSub(reserve_out, new_reserve_out)]

\* lines 358-381: the position after shares_out shares of side were bought at
\* current_price.
BoughtPosition(pos, side, shares_out, current_price) ==
    IF side = "Yes"
    THEN LET old_shares == pos.yes_shares
             new_shares == old_shares + shares_out
         IN  [pos EXCEPT
                 !.yes_avg_price =
                     IF new_shares > 0
                     THEN WeightedMean(@, old_shares, current_price,
                                       shares_out, new_shares)
                     ELSE @,
                 !.yes_shares = new_shares]
    ELSE LET old_shares == pos.no_shares
             new_shares == old_shares + shares_out
         IN  [pos EXCEPT
                 !.no_avg_price =
                     IF new_shares > 0
                     THEN WeightedMean(@, old_shares, current_price,
                                       shares_out, new_shares)
                     ELSE @,
                 !.no_shares = new_shares]

\* Mutant: the status of the market is not checked.
BuyShares_AnyStatus(ctx, user, side, amount_in, min_shares_out) ==
    IF ~(amount_in > 0) THEN Ret("InvalidAmount", ctx, 0)
    ELSE IF ~(amount_in <=
              (ctx.pool.total_liquidity * MAX_TRADE_SIZE_BPS) \div BASIS_POINTS)
    THEN Ret("TradeExceedsMaxSize", ctx, 0)
    ELSE IF ~(ctx.pool.yes_reserve > 0 /\ ctx.pool.no_reserve > 0)
    THEN Ret("PoolNotInitialized", ctx, 0)
    ELSE
    LET q == BuyQuote(ctx.pool, side, amount_in)
        shares_out == q.shares_out
    IN  IF OutputCheck(shares_out, min_shares_out) # "Ok"
        THEN Ret(OutputCheck(shares_out, min_shares_out), ctx, 0)
        ELSE
        LET pool1 == [ctx.pool EXCEPT
                         !.total_fees_collected = @ + q.fee,
                         !.no_reserve = IF side = "Yes" THEN q.new_reserve_in
                                        ELSE q.new_reserve_out,
                         !.yes_reserve = IF side = "Yes" THEN q.new_reserve_out
                                         ELSE q.new_reserve_in]
            market1 == [ctx.market EXCEPT
                           !.total_yes_shares =
                               IF side = "Yes" THEN @ + shares_out ELSE @,
                           !.total_no_shares =
                               IF side = "No" THEN @ + shares_out ELSE @]
            pos1 == [ctx.position EXCEPT
                        !.user = IF @ = NoKey THEN user ELSE @]
            current_price == GetPriceForSide(pool1, side)
        IN  Ret("Ok",
                [ctx EXCEPT
                    !.vault = @ + amount_in,
                    !.pool = pool1,
                    !.market = market1,
                    !.position =
                        BoughtPosition(pos1, side, shares_out, current_price)],
                shares_out)

BuyShares(ctx, user, side, amount_in, min_shares_out) ==
    IF ctx.market.status # "Active" THEN Ret("MarketNotActive", ctx, 0)
    ELSE IF ~(amount_in > 0) THEN Ret("InvalidAmount", ctx, 0)
    ELSE IF ~(amount_in <= MaxTradeSize(ctx.pool.total_liquidity))
    THEN Ret("TradeExceedsMaxSize", ctx, 0)
    ELSE IF ~PoolInitialized(ctx.pool)
    THEN Ret("PoolNotInitialized", ctx, 0)
    ELSE
    LET q == BuyQuote(ctx.pool, side, amount_in)
        shares_out == q.shares_out
    IN  IF OutputCheck(shares_out, min_shares_out) # "Ok"
        THEN Ret(OutputCheck(shares_out, min_shares_out), ctx, 0)
        ELSE
        LET pool1 == [ctx.pool EXCEPT
                         !.total_fees_collected = @ + q.fee,
                         !.no_reserve = IF side = "Yes" THEN q.new_reserve_in
                                        ELSE q.new_reserve_out,
                         !.yes_reserve = IF side = "Yes" THEN q.new_reserve_out
                                         ELSE q.new_reserve_in]
            market1 == [ctx.market EXCEPT
                           !.total_yes_shares =
                               IF side = "Yes" THEN @ + shares_out ELSE @,
                           !.total_no_shares =
                               IF side = "No" THEN @ + shares_out ELSE @]
            pos1 == [ctx.position EXCEPT
                        !.user = IF @ = NoKey THEN user ELSE @]
            current_price == GetPriceForSide(pool1, side)
        IN  Ret("Ok",
                [ctx EXCEPT
                    !.vault = @ + amount_in,
                    !.pool = pool1,
                    !.market = market1,
                    !.position =
                        BoughtPosition(pos1, side, shares_out, current_price)],
                shares_out)

\* --------------------------------------------------------------- sell_shares
\* lines 425-437: the quote of a sell against pool p.
SellQuote(p, side, shares_in) ==
    LET reserve_in == IF side = "Yes" THEN p.yes_reserve ELSE p.no_reserve
        reserve_out == IF side = "Yes" THEN p.no_reserve ELSE p.yes_reserve
        k == reserve_in * reserve_out
        new_reserve_in == reserve_in + shares_in
        new_reserve_out == NewReserveOut(k, new_reserve_in)
        amount_out_before_fee == SaturatingSub(reserve_out, new_reserve_out)
        fee == Fee(amount_out_before_fee)
    IN  [fee |-> fee, new_reserve_in |-> new_reserve_in,
         new_reserve_out |-> new_reserve_out,
         amount_out_before_fee |-> amount_out_before_fee,
         amount_out |-> amount_out_before_fee - fee]

\* Mutant: the fee of a sell is booked into total_liquidity.
SellShares_FeeToLiquidity(ctx, user, side, shares_in, min_amount_out) ==
    IF ctx.market.status # "Active" THEN Ret("MarketNotActive", ctx, 0)
    ELSE IF ~(shares_in > 0) THEN Ret("InvalidAmount", ctx, 0)
    ELSE IF ~((IF side = "Yes" THEN ctx.position.yes_shares
               ELSE ctx.position.no_shares) >= shares_in)
    THEN Ret("InsufficientShares", ctx, 0)
    ELSE IF ~(ctx.pool.yes_reserve > 0 /\ ctx.pool.no_reserve > 0)
    THEN Ret("PoolNotInitialized", ctx, 0)
    ELSE
    LET q == SellQuote(ctx.pool, side, shares_in)
        amount_out == q.amount_out
    IN  IF OutputCheck(amount_out, min_amount_out) # "Ok"
        THEN Ret(OutputCheck(amount_out, min_amount_out), ctx, 0)
        ELSE IF ~(ctx.vault >= amount_out)
        THEN Ret("InsufficientVaultFunds", ctx, 0)
        ELSE Ret("Ok",
                 [ctx EXCEPT
                     !.vault = @ - amount_out,
                     !.pool.yes_reserve = IF side = "Yes" THEN q.new_reserve_in
                                          ELSE q.new_reserve_out,
                     !.pool.no_reserve = IF side = "Yes" THEN q.new_reserve_out
                                         ELSE q.new_reserve_in,
                     !.pool.total_fees_collected = @ + q.fee,
                     !.pool.total_liquidity = @ + q.fee,
                     !.market.total_yes_shares =
                         IF side = "Yes" THEN SaturatingSub(@, shares_in) ELSE @,
                     !.market.total_no_shares =
                         IF side = "No" THEN SaturatingSub(@, shares_in) ELSE @,
                     !.position.yes_shares =
                         IF side = "Yes" THEN SaturatingSub(@, shares_in) ELSE @,
                     !.position.no_shares =
                         IF side = "No" THEN SaturatingSub(@, shares_in) ELSE @],
                 amount_out)

\* Mutant: the seller's share balance is not checked, so the saturating
\* subtraction on the position clamps.
SellShares_NoShareCheck(ctx, user, side, shares_in, min_amount_out) ==
    IF ctx.market.status # "Active" THEN Ret("MarketNotActive", ctx, 0)
    ELSE IF ~(shares_in > 0) THEN Ret("InvalidAmount", ctx, 0)
    ELSE IF ~PoolInitialized(ctx.pool)
    THEN Ret("PoolNotInitialized", ctx, 0)
    ELSE
    LET q == SellQuote(ctx.pool, side, shares_in)
        amount_out == q.amount_out
    IN  IF OutputCheck(amount_out, min_amount_out) # "Ok"
        THEN Ret(OutputCheck(amount_out, min_amount_out), ctx, 0)
        ELSE IF ~(ctx.vault >= amount_out)
        THEN Ret("InsufficientVaultFunds", ctx, 0)
        ELSE Ret("Ok",
                 [ctx EXCEPT
                     !.vault = @ - amount_out,
                     !.pool.yes_reserve = IF side = "Yes" THEN q.new_reserve_in
                                          ELSE q.new_reserve_out,
                     !.pool.no_reserve = IF side = "Yes" THEN q.new_reserve_out
                                         ELSE q.new_reserve_in,
                     !.pool.total_fees_collected = @ + q.fee,
                     !.market.total_yes_shares =
                         IF side = "Yes" THEN SaturatingSub(@, shares_in) ELSE @,
                     !.market.total_no_shares =
                         IF side = "No" THEN SaturatingSub(@, shares_in) ELSE @,
                     !.position.yes_shares =
                         IF side = "Yes" THEN SaturatingSub(@, shares_in) ELSE @,
                     !.position.no_shares =
                         IF side = "No" THEN SaturatingSub(@, shares_in) ELSE @],
                 amount_out)

SellShares(ctx, user, side, shares_in, min_amount_out) ==
    IF ctx.market.status # "Active" THEN Ret("MarketNotActive", ctx, 0)
    ELSE IF ~(shares_in > 0) THEN Ret("InvalidAmount", ctx, 0)
    ELSE IF ~((IF side = "Yes" THEN ctx.position.yes_shares
               ELSE ctx.position.no_shares) >= shares_in)
    THEN Ret("InsufficientShares", ctx, 0)
    ELSE IF ~PoolInitialized(ctx.pool)
    THEN Ret("PoolNotInitialized", ctx, 0)
    ELSE
    LET q == SellQuote(ctx.pool, side, shares_in)
        amount_out == q.amount_out
    IN  IF OutputCheck(amount_out, min_amount_out) # "Ok"
        THEN Ret(OutputCheck(amount_out, min_amount_out), ctx, 0)
        ELSE IF ~(ctx.vault >= amount_out)
        THEN Ret("InsufficientVaultFunds", ctx, 0)
        ELSE Ret("Ok",
                 [ctx EXCEPT
                     !.vault = @ - amount_out,
                     !.pool.yes_reserve = IF side = "Yes" THEN q.new_reserve_in
                                          ELSE q.new_reserve_out,
                     !.pool.no_reserve = IF side = "Yes" THEN q.new_reserve_out
                                         ELSE q.new_reserve_in,
                     !.pool.total_fees_collected = @ + q.fee,
                     !.market.total_yes_shares =
                         IF side = "Yes" THEN SaturatingSub(@, shares_in) ELSE @,
                     !.market.total_no_shares =
                         IF side = "No" THEN SaturatingSub(@, shares_in) ELSE @,
                     !.position.yes_shares =
                         IF side = "Yes" THEN SaturatingSub(@, shares_in) ELSE @,
                     !.position.no_shares =
                         IF side = "No" THEN SaturatingSub(@, shares_in) ELSE @],
                 amount_out)

\* ------------------------------------------------------------ resolve_market
\* Mutant: a price equal to the strike resolves to No.
OutcomeOf_Strict(price, strike_price) ==
    IF price > strike_price THEN "Yes" ELSE "No"

\* lines 538-543
OutcomeOf(price, strike_price) == IF price >= strike_price THEN "Yes" ELSE "No"

\* Mutant: the status is left Active on resolution.
ResolvedMarket_KeepsStatus(m, outcome, price, t) ==
    [m EXCEPT !.outcome = Some(outcome), !.resolution_price = Some(price),
              !.resolution_timestamp = Some(t)]

\* Mutant: the resolution timestamp is not recorded.
ResolvedMarket_NoTimestamp(m, outcome, price, t) ==
    [m EXCEPT !.status = "Resolved", !.outcome = Some(outcome),
              !.resolution_price = Some(price)]

\* lines 545-550
ResolvedMarket(m, outcome, price, t) ==
    [m EXCEPT !.status = "Resolved", !.outcome = Some(outcome),
              !.resolution_price = Some(price),
              !.resolution_timestamp = Some(t)]

ResolveMarket(ctx, reading, t) ==
    IF ctx.market.status # "Active" THEN Ret("MarketNotActive", ctx, 0)
    ELSE IF ~(t >= ctx.market.expiration + RESOLUTION_DELAY)
    THEN Ret("MarketNotExpired", ctx, 0)
    ELSE
    LET got == GetPriceNoOlderThan(reading, t, MAX_ORACLE_STALENESS)
    IN  IF got = None THEN Ret("InvalidOraclePrice", ctx, 0)
        ELSE
        LET current_price == CHOOSE x \in got : TRUE
        IN  IF ~(current_price.conf <= ctx.market.max_confidence)
            THEN Ret("ConfidenceTooHigh", ctx, 0)
            ELSE Ret("Ok",
                     [ctx EXCEPT !.market =
                         ResolvedMarket(@,
                             OutcomeOf(current_price.price, @.strike_price),
                             current_price.price, t)],
                     0)

\* ------------------------------------------------------------ claim_winnings
\* Mutant: the shares of both sides count as winning.
WinningShares_BothSides(pos, outcome) == pos.yes_shares + pos.no_shares

\* lines 579-582
WinningShares(pos, outcome) ==
    IF outcome = "Yes" THEN pos.yes_shares ELSE pos.no_shares

\* Mutant: the position is not marked as claimed.
ClaimedPosition_Unmarked(pos) == pos

\* lines 613-615
ClaimedPosition(pos) == [pos EXCEPT !.claimed = TRUE]

ClaimWinnings(ctx, user) ==
    IF ctx.market.status # "Resolved" THEN Ret("MarketNotResolved", ctx, 0)
    ELSE IF ctx.position.user # user THEN Ret("InvalidPosition", ctx, 0)
    ELSE IF ctx.position.claimed THEN Ret("AlreadyClaimed", ctx, 0)
    ELSE IF ctx.market.outcome = None THEN Ret("MarketNotResolved", ctx, 0)
    ELSE
    LET outcome == CHOOSE o \in ctx.market.outcome : TRUE
        winning_shares == WinningShares(ctx.position, outcome)
        payout == winning_shares
    IN  IF ~(winning_shares > 0) THEN Ret("NoWinnings", ctx, 0)
        ELSE IF ~(ctx.vault >= payout)
        THEN Ret("InsufficientVaultFunds", ctx, 0)
        ELSE Ret("Ok",
                 [ctx EXCEPT !.vault = @ - payout,
                             !.position = ClaimedPosition(@)],
                 payout)

\* ------------------------------------------------------------- cancel_market
\* Mutant: the market is cancelled whatever its status.
CancelMarket_AnyStatus(ctx, authority) ==
    IF ctx.market.authority # authority THEN Ret("Unauthorized", ctx, 0)
    ELSE Ret("Ok", [ctx EXCEPT !.market.status = "Cancelled"], 0)

\* Mutant: the caller is not compared with market.authority.
CancelMarket_AnyCaller(ctx, authority) ==
    IF ctx.market.status # "Active" THEN Ret("MarketNotActive", ctx, 0)
    ELSE Ret("Ok", [ctx EXCEPT !.market.status = "Cancelled"], 0)

CancelMarket(ctx, authority) ==
    IF ctx.market.status # "Active" THEN Ret("MarketNotActive", ctx, 0)
    ELSE IF ctx.market.authority # authority THEN Ret("Unauthorized", ctx, 0)
    ELSE Ret("Ok", [ctx EXCEPT !.market.status = "Cancelled"], 0)

\* ----------------------------------------------------------- delegate_market
DelegateMarket(ctx) ==
    IF ctx.market.status # "Active" THEN Ret("MarketNotActive", ctx, 0)
    ELSE Ret("Ok", ctx, 0)

\* ------------------------------------------------------------------- actions
Init ==
    /\ now = 0
    /\ accounts = {}
    /\ market = ZeroMarket
    /\ pool = ZeroPool
    /\ position = [u \in Users |-> ZeroPosition]
    /\ lp_position = [u \in Users |-> ZeroLPPosition]
    /\ vault = 0
    /\ paid = [u \in Users |-> 0]
    /\ won = [u \in Users |-> 0]

\* Store the accounts of the context a handler called by u returned.
Store(u, r) ==
    /\ market' = r.ctx.market
    /\ pool' = r.ctx.pool
    /\ position' = [position EXCEPT ![u] = r.ctx.position]
    /\ lp_position' = [lp_position EXCEPT ![u] = r.ctx.lp_position]
    /\ vault' = r.ctx.vault

Tick ==
    \E dt \in TickSteps :
        /\ now + dt <= MaxTime
        /\ now' = now + dt
        /\ UNCHANGED <<accounts, market, pool, position, lp_position, vault,
                       paid, won>>

DoCreateMarket ==
    \E u \in Users, k \in StrikePrices, e \in Expirations,
       c \in MaxConfidences, d \in DescriptionLens,
       reading \in OracleReadings(now) :
        /\ "market" \notin accounts
        /\ LET r == CreateMarket(Ctx(u), u, k, e, c, d, reading, now)
           IN  /\ Store(u, r)
               /\ accounts' = IF r.err = "Ok" THEN accounts \cup {"market"}
                              ELSE accounts
        /\ UNCHANGED <<now, paid, won>>

DoInitializePool ==
    \E u \in Users, a \in InitialLiquidities :
        /\ "market" \in accounts
        /\ "pool" \notin accounts
        /\ LET r == InitializePool(Ctx(u), u, a)
           IN  /\ Store(u, r)
               /\ accounts' = IF r.err = "Ok" THEN accounts \cup {"pool"}
                              ELSE accounts
        /\ UNCHANGED <<now, paid, won>>

DoAddLiquidity ==
    \E u \in Users, a \in AddAmounts, m \in MinLpTokens :
        /\ "pool" \in accounts
        /\ pool.total_liquidity + a <= MaxTotalLiquidity
        /\ Store(u, AddLiquidity(Ctx(u), u, a, m))
        /\ UNCHANGED <<now, accounts, paid, won>>

DoRemoveLiquidity ==
    \E u \in Users, a \in RemoveLpTokens, m \in MinAmountsOut :
        /\ "pool" \in accounts
        /\ Store(u, RemoveLiquidity(Ctx(u), u, a, m))
        /\ UNCHANGED <<now, accounts, paid, won>>

DoBuyShares ==
    \E u \in Users, s \in Sides, a \in BuyAmounts, m \in MinSharesOut :
        /\ "pool" \in accounts
        /\ pool.total_fees_collected < MaxFees
        /\ Store(u, BuyShares(Ctx(u), u, s, a, m))
        /\ UNCHANGED <<now, accounts, paid, won>>

DoSellShares ==
    \E u \in Users, s \in Sides, a \in SellShareAmounts, m \in SellMinOut :
        /\ "pool" \in accounts
        /\ pool.total_fees_collected < MaxFees
        /\ Store(u, SellShares(Ctx(u), u, s, a, m))
        /\ UNCHANGED <<now, accounts, paid, won>>

DoResolveMarket ==
    \E u \in {Resolver}, reading \in OracleReadings(now) :
        /\ "market" \in accounts
        /\ LET r == ResolveMarket(Ctx(u), reading, now)
           IN  /\ Store(u, r)
               /\ won' = IF r.err = "Ok"
                         THEN [x \in Users |->
                                 WinningShares(position[x],
                                     CHOOSE o \in r.ctx.market.outcome : TRUE)]
                         ELSE won
        /\ UNCHANGED <<now, accounts, paid>>

DoClaimWinnings ==
    \E u \in Users :
        /\ "market" \in accounts
        /\ "pool" \in accounts
        /\ position[u].user # NoKey
        /\ LET r == ClaimWinnings(Ctx(u), u)
           IN  /\ Store(u, r)
               /\ paid' = [paid EXCEPT ![u] = @ + r.out]
        /\ UNCHANGED <<now, accounts, won>>

DoCancelMarket ==
    \E u \in Users :
        /\ "market" \in accounts
        /\ Store(u, CancelMarket(Ctx(u), u))
        /\ UNCHANGED <<now, accounts, paid, won>>

DoDelegateMarket ==
    \E u \in {Resolver} :
        /\ "market" \in accounts
        /\ Store(u, DelegateMarket(Ctx(u)))
        /\ UNCHANGED <<now, accounts, paid, won>>

Next ==
    \/ Tick
    \/ DoCreateMarket
    \/ DoInitializePool
    \/ DoAddLiquidity
    \/ DoRemoveLiquidity
    \/ DoBuyShares
    \/ DoSellShares
    \/ DoResolveMarket
    \/ DoClaimWinnings
    \/ DoCancelMarket
    \/ DoDelegateMarket

Spec == Init /\ [][Next]_vars

\* =================================================================== claims
Product(p) == p.yes_reserve * p.no_reserve

\* C1 (Conservation): every successful buy_shares or sell_shares, from any
\* reachable pool state and for either side, leaves yes_reserve * no_reserve
\* at least as large as it was before the trade.
C1_ProductNeverDecreases ==
    [][\A u \in Users, s \in Sides :
        /\ \A a \in BuyAmounts, m \in MinSharesOut :
            LET r == BuyShares(Ctx(u), u, s, a, m)
            IN  (r.err = "Ok" /\ pool' = r.ctx.pool /\ vault' = r.ctx.vault
                              /\ market' = r.ctx.market)
                => Product(pool') >= Product(pool)
        /\ \A a \in SellShareAmounts, m \in SellMinOut :
            LET r == SellShares(Ctx(u), u, s, a, m)
            IN  (r.err = "Ok" /\ pool' = r.ctx.pool /\ vault' = r.ctx.vault
                              /\ market' = r.ctx.market)
                => Product(pool') >= Product(pool)]_vars

\* C2 (Claim idempotence): once a claim_winnings on a position has paid out,
\* every later claim_winnings on that position fails with AlreadyClaimed and
\* changes nothing, and the collateral paid to a position never exceeds the
\* winning-side share balance it held when the market was resolved.
C2_ClaimIdempotence ==
    \A u \in Users :
        /\ paid[u] <= won[u]
        /\ paid[u] > 0 =>
            /\ ClaimWinnings(Ctx(u), u).err = "AlreadyClaimed"
            /\ ClaimWinnings(Ctx(u), u).ctx = Ctx(u)

C2_Witness ==
    \E u \in Users : paid[u] > 0 /\ paid[u] = won[u] /\ position[u].claimed

\* C3 (At-most-one resolution): after resolve_market has succeeded, every
\* later resolve_market call, whatever the oracle reports, fails with
\* MarketNotActive and leaves outcome, resolution_price and
\* resolution_timestamp as they are.
C3_ResolveOnce ==
    market.resolution_timestamp # None =>
        \A reading \in OracleReadings(now) :
            LET r == ResolveMarket(Ctx(Resolver), reading, now)
            IN  /\ r.err = "MarketNotActive"
                /\ r.ctx.market.outcome = market.outcome
                /\ r.ctx.market.resolution_price = market.resolution_price
                /\ r.ctx.market.resolution_timestamp = market.resolution_timestamp

C3_Witness ==
    /\ market.status = "Resolved"
    /\ market.resolution_timestamp = Some(now)
    /\ now >= market.expiration + RESOLUTION_DELAY

\* C4 (Terminal states): the status only ever changes from Active to Resolved,
\* by resolve_market, or from Active to Cancelled, by cancel_market; once it is
\* Resolved or Cancelled no operation changes it again.
C4_TerminalStates ==
    [][/\ market.status # "Active" => market'.status = market.status
       /\ market'.status # market.status =>
            \/ /\ market'.status = "Resolved"
               /\ \E reading \in OracleReadings(now) :
                    LET r == ResolveMarket(Ctx(Resolver), reading, now)
                    IN  r.err = "Ok" /\ market' = r.ctx.market
            \/ /\ market'.status = "Cancelled"
               /\ \E u \in Users :
                    LET r == CancelMarket(Ctx(u), u)
                    IN  r.err = "Ok" /\ market' = r.ctx.market]_vars

C4_Witness ==
    /\ market.status = "Resolved"
    /\ \E u \in Users : position[u].claimed
    /\ pool.total_liquidity = 0

\* C5: outcome, resolution_price and resolution_timestamp are all set when the
\* status is Resolved and all unset when it is Active or Cancelled.
C5_ResolutionFieldsIffResolved ==
    IF market.status = "Resolved"
    THEN /\ market.outcome # None
         /\ market.resolution_price # None
         /\ market.resolution_timestamp # None
    ELSE /\ market.outcome = None
         /\ market.resolution_price = None
         /\ market.resolution_timestamp = None

C5_Witness ==
    /\ market.status = "Resolved"
    /\ market.outcome = Some("No")
    /\ market.resolution_price = Some(49999999)

C5_WitnessCancelled ==
    market.status = "Cancelled" /\ market.outcome = None

\* C6 (Failure atomicity): a call of any instruction that returns an error
\* returns with the Market, Pool, Position, LPPosition and vault exactly as
\* they were handed to it.
C6_FailureAtomicity ==
    \A u \in Users :
        /\ \A k \in StrikePrices, e \in Expirations, c \in MaxConfidences,
              d \in DescriptionLens, reading \in OracleReadings(now) :
            LET r == CreateMarket(Ctx(u), u, k, e, c, d, reading, now)
            IN  r.err # "Ok" => r.ctx = Ctx(u)
        /\ \A a \in InitialLiquidities :
            LET r == InitializePool(Ctx(u), u, a)
            IN  r.err # "Ok" => r.ctx = Ctx(u)
        /\ \A a \in AddAmounts, m \in MinLpTokens :
            LET r == AddLiquidity(Ctx(u), u, a, m)
            IN  r.err # "Ok" => r.ctx = Ctx(u)
        /\ \A a \in RemoveLpTokens, m \in MinAmountsOut :
            LET r == RemoveLiquidity(Ctx(u), u, a, m)
            IN  r.err # "Ok" => r.ctx = Ctx(u)
        /\ \A s \in Sides, a \in BuyAmounts, m \in MinSharesOut :
            LET r == BuyShares(Ctx(u), u, s, a, m)
            IN  r.err # "Ok" => r.ctx = Ctx(u)
        /\ \A s \in Sides, a \in SellShareAmounts, m \in SellMinOut :
            LET r == SellShares(Ctx(u), u, s, a, m)
            IN  r.err # "Ok" => r.ctx = Ctx(u)
        /\ \A reading \in OracleReadings(now) :
            LET r == ResolveMarket(Ctx(u), reading, now)
            IN  r.err # "Ok" => r.ctx = Ctx(u)
        /\ LET r == ClaimWinnings(Ctx(u), u)
           IN  r.err # "Ok" => r.ctx = Ctx(u)
        /\ LET r == CancelMarket(Ctx(u), u)
           IN  r.err # "Ok" => r.ctx = Ctx(u)

\* A state in which calls fail at their last checks: a remove_liquidity on the
\* slippage limit, a buy on the dust floor, a claim on NoWinnings.
C6_Witness ==
    \E u \in Users, v \in Users :
        /\ RemoveLiquidity(Ctx(u), u, 18001, 20001).err = "SlippageExceeded"
        /\ pool.total_fees_collected > 0
        /\ SellShares(Ctx(v), v, "Yes", 800, 0).err = "OutputTooSmall"

\* The state of the round-trip example: an Active market whose pool holds
\* what initialize_pool(10,000) left.
ExampleState ==
    /\ "pool" \in accounts
    /\ market.status = "Active"
    /\ pool = [yes_reserve |-> 10000, no_reserve |-> 10000,
               total_liquidity |-> 20000, total_fees_collected |-> 0,
               lp_token_supply |-> 20000]

ExampleMinSharesOut == {0, 1, 907, 908, 1000, 9093}

\* C7 as stated (Round-trip example): in the example state
\* buy_shares(Yes, 1000, min_shares_out) with min_shares_out <= 907 succeeds
\* with fee 3 and shares_out 907, leaving no_reserve = 10,997,
\* yes_reserve = 9,093 and total_fees_collected = 3; with min_shares_out > 907
\* it fails with SlippageExceeded.
C7_RoundTripExample ==
    ExampleState =>
        \A u \in Users, m \in ExampleMinSharesOut :
            LET r == BuyShares(Ctx(u), u, "Yes", 1000, m)
            IN  IF m <= 907
                THEN /\ r.err = "Ok"
                     /\ r.out = 907
                     /\ r.ctx.pool.no_reserve = 10997
                     /\ r.ctx.pool.yes_reserve = 9093
                     /\ r.ctx.pool.total_fees_collected = 3
                ELSE r.err = "SlippageExceeded"

\* C7 as amended: in the example state buy_shares(Yes, 1000, min_shares_out)
\* is quoted with fee 3, new no_reserve 10,997, new yes_reserve 9,093 and
\* shares_out 907, and because 907 is below MIN_SHARES_OUTPUT it fails with
\* OutputTooSmall when min_shares_out <= 907 and with SlippageExceeded when
\* min_shares_out > 907, leaving every account unchanged.
C7_RoundTripExampleAmended ==
    ExampleState =>
        \A u \in Users, m \in ExampleMinSharesOut :
            LET r == BuyShares(Ctx(u), u, "Yes", 1000, m)
                q == BuyQuote(pool, "Yes", 1000)
            IN  /\ q = [fee |-> 3, new_reserve_in |-> 10997,
                        new_reserve_out |-> 9093, shares_out |-> 907]
                /\ r.err = IF m <= 907 THEN "OutputTooSmall"
                           ELSE "SlippageExceeded"
                /\ r.ctx = Ctx(u)

C7_Witness ==
    /\ ExampleState
    /\ vault = 20000
    /\ BuyShares(Ctx("u2"), "u2", "Yes", 1000, 907).err = "OutputTooSmall"
    /\ BuyShares(Ctx("u2"), "u2", "Yes", 1000, 908).err = "SlippageExceeded"

\* A buy of amount a on side s that passes every check before the quote.
DustBuyCase(s, a) ==
    /\ "pool" \in accounts
    /\ market.status = "Active"
    /\ pool.yes_reserve > 0 /\ pool.no_reserve > 0
    /\ a > 0
    /\ a <= (pool.total_liquidity * MAX_TRADE_SIZE_BPS) \div BASIS_POINTS
    /\ BuyQuote(pool, s, a).shares_out < MIN_SHARES_OUTPUT

\* No successful buy credits, and no successful sell pays, less than the floor.
NoDustTrade ==
    \A u \in Users, s \in Sides :
        /\ \A a \in BuyAmounts, m \in MinSharesOut :
            LET r == BuyShares(Ctx(u), u, s, a, m)
                credited ==
                    IF s = "Yes"
                    THEN r.ctx.position.yes_shares - position[u].yes_shares
                    ELSE r.ctx.position.no_shares - position[u].no_shares
            IN  r.err = "Ok" => credited >= MIN_SHARES_OUTPUT
        /\ \A a \in SellShareAmounts, m \in SellMinOut :
            LET r == SellShares(Ctx(u), u, s, a, m)
            IN  r.err = "Ok" => vault - r.ctx.vault >= MIN_SHARES_OUTPUT

\* C8 as stated (Dust floor): a buy on an Active market with non-zero
\* reserves and amount_in within the max trade size whose shares_out is below
\* MIN_SHARES_OUTPUT fails with OutputTooSmall, whatever min_shares_out is;
\* no successful buy credits fewer than MIN_SHARES_OUTPUT shares and no
\* successful sell pays out less than MIN_SHARES_OUTPUT.
C8_DustFloor ==
    /\ \A u \in Users, s \in Sides, a \in BuyAmounts, m \in MinSharesOut :
        DustBuyCase(s, a) =>
            BuyShares(Ctx(u), u, s, a, m).err = "OutputTooSmall"
    /\ NoDustTrade

\* C8 as amended: such a buy always fails, with OutputTooSmall when
\* min_shares_out <= shares_out (in particular when min_shares_out = 0) and
\* with SlippageExceeded when min_shares_out > shares_out, because the
\* slippage check comes first; no successful buy credits fewer than
\* MIN_SHARES_OUTPUT shares and no successful sell pays out less.
C8_DustFloorAmended ==
    /\ \A u \in Users, s \in Sides, a \in BuyAmounts, m \in MinSharesOut :
        DustBuyCase(s, a) =>
            BuyShares(Ctx(u), u, s, a, m).err =
                IF m <= BuyQuote(pool, s, a).shares_out THEN "OutputTooSmall"
                ELSE "SlippageExceeded"
    /\ NoDustTrade

\* A state after a buy and a sell have succeeded in which a further buy of
\* 1000 is dust.
C8_Witness ==
    /\ pool.total_fees_collected = 6
    /\ market.total_yes_shares + market.total_no_shares = 0
    /\ \E s \in Sides :
        /\ DustBuyCase(s, 1000)
        /\ BuyShares(Ctx("u1"), "u1", s, 1000, 0).err = "OutputTooSmall"

\* C9: in every state reachable after initialize_pool both reserves are
\* positive.
C9_ReservesPositive ==
    "pool" \in accounts => pool.yes_reserve > 0 /\ pool.no_reserve > 0

\* C10: whenever total_liquidity > 0, lp_token_supply > 0.
C10_LiquidityHasLpTokens ==
    pool.total_liquidity > 0 => pool.lp_token_supply > 0

\* The pool was drained to zero liquidity and then refilled by a deposit.
C10_Witness ==
    /\ pool.total_liquidity = 18001
    /\ pool.lp_token_supply = 18001
    /\ \E u \in Users : lp_position[u].lp_tokens = 18001

\* Every buy_shares and sell_shares call returns with the caller's
\* LPPosition, lp_token_supply and total_liquidity as they were.
TradesLeaveLiquidity ==
    \A u \in Users, s \in Sides :
        /\ \A a \in BuyAmounts, m \in MinSharesOut :
            LET r == BuyShares(Ctx(u), u, s, a, m)
            IN  /\ r.ctx.lp_position = lp_position[u]
                /\ r.ctx.pool.lp_token_supply = pool.lp_token_supply
                /\ r.ctx.pool.total_liquidity = pool.total_liquidity
        /\ \A a \in SellShareAmounts, m \in SellMinOut :
            LET r == SellShares(Ctx(u), u, s, a, m)
            IN  /\ r.ctx.lp_position = lp_position[u]
                /\ r.ctx.pool.lp_token_supply = pool.lp_token_supply
                /\ r.ctx.pool.total_liquidity = pool.total_liquidity

\* C11 (LP proportionality): every buy_shares and sell_shares call returns
\* with the caller's LPPosition.lp_tokens, Pool.lp_token_supply and
\* Pool.total_liquidity as they were, and no step changes any LPPosition's
\* lp_tokens, lp_token_supply or total_liquidity unless it is a successful
\* initialize_pool, add_liquidity or remove_liquidity.
C11_TradingLeavesLiquidity ==
    /\ []TradesLeaveLiquidity
    /\ [][(\/ pool'.total_liquidity # pool.total_liquidity
           \/ pool'.lp_token_supply # pool.lp_token_supply
           \/ \E u \in Users : lp_position'[u].lp_tokens # lp_position[u].lp_tokens)
          => \E u \in Users :
                \/ \E a \in InitialLiquidities :
                    LET r == InitializePool(Ctx(u), u, a)
                    IN  /\ r.err = "Ok" /\ "pool" \notin accounts
                        /\ pool' = r.ctx.pool
                        /\ lp_position' = [lp_position EXCEPT ![u] = r.ctx.lp_position]
                \/ \E a \in AddAmounts, m \in MinLpTokens :
                    LET r == AddLiquidity(Ctx(u), u, a, m)
                    IN  /\ r.err = "Ok"
                        /\ pool' = r.ctx.pool
                        /\ lp_position' = [lp_position EXCEPT ![u] = r.ctx.lp_position]
                \/ \E a \in RemoveLpTokens, m \in MinAmountsOut :
                    LET r == RemoveLiquidity(Ctx(u), u, a, m)
                    IN  /\ r.err = "Ok"
                        /\ pool' = r.ctx.pool
                        /\ lp_position' = [lp_position EXCEPT ![u] = r.ctx.lp_position]
      ]_vars

\* Fees have been collected by a buy and a sell, the reserves have moved, and
\* the liquidity and the LP tokens are exactly what initialize_pool(10,000) set.
C11_Witness ==
    /\ pool.total_fees_collected = 6
    /\ pool.yes_reserve # pool.no_reserve
    /\ pool.total_liquidity = 20000
    /\ pool.lp_token_supply = 20000
    /\ \E u \in Users : lp_position[u].lp_tokens = 20000

\* C12 (Resolution outcome rule): whenever resolve_market succeeds with the
\* oracle reading (price, conf), the recorded outcome is Yes if
\* price >= strike_price and No otherwise, and resolution_price is that price;
\* a Resolved market always carries the outcome its resolution_price gives;
\* with strike 50,000,000 and max_confidence 200,000 a fresh reading of
\* price 51,000,000 and conf 100,000 after the delay resolves to Yes.
C12_OutcomeRule ==
    /\ \A reading \in OracleReadings(now) :
        LET r == ResolveMarket(Ctx(Resolver), reading, now)
        IN  r.err = "Ok" =>
                \E x \in reading :
                    /\ r.ctx.market.outcome =
                        Some(IF x.price >= market.strike_price THEN "Yes"
                             ELSE "No")
                    /\ r.ctx.market.resolution_price = Some(x.price)
    /\ market.status = "Resolved" =>
        \E x \in market.resolution_price :
            market.outcome =
                Some(IF x >= market.strike_price THEN "Yes" ELSE "No")
    /\ ( /\ "market" \in accounts
         /\ market.status = "Active"
         /\ market.strike_price = 50000000
         /\ market.max_confidence = 200000
         /\ now >= market.expiration + RESOLUTION_DELAY )
       => LET r == ResolveMarket(Ctx(Resolver),
                       Some([price |-> 51000000, conf |-> 100000,
                             publish_time |-> now]), now)
          IN  r.err = "Ok" /\ r.ctx.market.outcome = Some("Yes")

\* A market resolved by a price exactly equal to its strike.
C12_Witness ==
    /\ market.status = "Resolved"
    /\ market.resolution_price = Some(market.strike_price)
    /\ market.outcome = Some("Yes")

\* C13 (Resolution guard): resolve_market on an Active market, called one
\* second before or exactly at expiration + RESOLUTION_DELAY, fails with
\* MarketNotExpired if the delay has not passed, else with InvalidOraclePrice
\* if the oracle gives no price or one older than 300 s, else with
\* ConfidenceTooHigh if conf > max_confidence, and succeeds otherwise; a
\* failed call leaves the market Active and unchanged.  No Resolved market has
\* resolution_timestamp < expiration + 300.
C13_ResolutionGuard ==
    /\ ("market" \in accounts /\ market.status = "Active") =>
        \A t \in {market.expiration + RESOLUTION_DELAY - 1,
                  market.expiration + RESOLUTION_DELAY, now} :
            \A reading \in OracleReadings(t) :
                LET r == ResolveMarket(Ctx(Resolver), reading, t)
                    expired == t >= market.expiration + 300
                    fresh == \E x \in reading : t - x.publish_time <= 300
                    sure == \E x \in reading : x.conf <= market.max_confidence
                IN  /\ r.err = IF ~expired THEN "MarketNotExpired"
                               ELSE IF ~fresh THEN "InvalidOraclePrice"
                               ELSE IF ~sure THEN "ConfidenceTooHigh"
                               ELSE "Ok"
                    /\ r.err # "Ok" => r.ctx.market = market
    /\ market.status = "Resolved" =>
        \E ts \in market.resolution_timestamp : ts >= market.expiration + 300

\* A market resolved exactly RESOLUTION_DELAY after its expiration.
C13_Witness ==
    /\ market.status = "Resolved"
    /\ market.resolution_timestamp = Some(market.expiration + RESOLUTION_DELAY)
    /\ market.outcome = Some("No")

\* C14 (Cancellation): at any time, also after expiration, cancel_market fails
\* with MarketNotActive when the market is not Active, else with Unauthorized
\* when the caller is not market.authority, and a failed call changes nothing;
\* otherwise it succeeds and only sets status = Cancelled: outcome,
\* resolution_price and resolution_timestamp stay unset and the pool, the
\* positions and the vault are unchanged.
C14_Cancellation ==
    [][/\ "market" \in accounts =>
            \A u \in Users :
                LET r == CancelMarket(Ctx(u), u)
                IN  /\ r.err = IF market.status # "Active" THEN "MarketNotActive"
                               ELSE IF u # market.authority THEN "Unauthorized"
                               ELSE "Ok"
                    /\ r.err # "Ok" => r.ctx = Ctx(u)
                    /\ r.err = "Ok" =>
                        /\ r.ctx.market = [market EXCEPT !.status = "Cancelled"]
                        /\ r.ctx.market.outcome = None
                        /\ r.ctx.market.resolution_price = None
                        /\ r.ctx.market.resolution_timestamp = None
                        /\ r.ctx.pool = pool
                        /\ r.ctx.position = position[u]
                        /\ r.ctx.lp_position = lp_position[u]
                        /\ r.ctx.vault = vault
       /\ market'.status = "Cancelled" /\ market.status # "Cancelled" =>
            /\ market = [market' EXCEPT !.status = "Active"]
            /\ CancelMarket(Ctx(market.authority), market.authority).err = "Ok"
            /\ UNCHANGED <<now, accounts, pool, position, lp_position, vault>>
      ]_vars

\* A cancelled market past its expiration, with shares held, collateral in the
\* vault and a non-authority caller among the users.
C14_Witness ==
    /\ market.status = "Cancelled"
    /\ now > market.expiration
    /\ market.total_yes_shares + market.total_no_shares > 0
    /\ vault > 0
    /\ \E u \in Users : u # market.authority

\* C15 (Claim preconditions): a claim_winnings call pays only when the market
\* is Resolved, the signer is the position's user, the position is unclaimed
\* and its winning-side share balance is positive; the payout, taken from the
\* vault, is exactly yes_shares if the outcome is Yes and no_shares if it is
\* No.  On an Active or Cancelled market the call fails with
\* MarketNotResolved and changes nothing, and nothing has ever been paid on a
\* market that is not Resolved.
C15_ClaimPreconditions ==
    /\ \A u \in Users, v \in Users :
        LET r == ClaimWinnings(Ctx(v), u)
            pos == position[v]
        IN  /\ r.err = "Ok" =>
                /\ market.status = "Resolved"
                /\ pos.user = u
                /\ ~pos.claimed
                /\ \/ market.outcome = Some("Yes") /\ r.out = pos.yes_shares
                   \/ market.outcome = Some("No") /\ r.out = pos.no_shares
                /\ r.out > 0
                /\ vault - r.ctx.vault = r.out
            /\ r.err # "Ok" => r.out = 0 /\ r.ctx.vault = vault
            /\ market.status \in {"Active", "Cancelled"} =>
                r.err = "MarketNotResolved" /\ r.ctx = Ctx(v)
    /\ \A u \in Users :
        /\ paid[u] > 0 => market.status = "Resolved"
        /\ paid[u] > 0 =>
            \/ market.outcome = Some("Yes") /\ paid[u] = position[u].yes_shares
            \/ market.outcome = Some("No") /\ paid[u] = position[u].no_shares

\* A position holding shares of both sides has been paid its winning side.
C15_Witness ==
    \E u \in Users :
        /\ paid[u] > 0
        /\ position[u].yes_shares > 0
        /\ position[u].no_shares > 0
        /\ position[u].claimed
        /\ market.outcome = Some("No")
        /\ paid[u] = position[u].no_shares

\* On a Resolved or Cancelled market every buy_shares and sell_shares call
\* fails with MarketNotActive.
TradesRejectedUnlessActive ==
    market.status \in {"Resolved", "Cancelled"} =>
        \A u \in Users, s \in Sides :
            /\ \A a \in BuyAmounts, m \in MinSharesOut :
                BuyShares(Ctx(u), u, s, a, m).err = "MarketNotActive"
            /\ \A a \in SellShareAmounts, m \in SellMinOut :
                SellShares(Ctx(u), u, s, a, m).err = "MarketNotActive"

\* C16 (Trading only while Active): when the market is Resolved or Cancelled
\* every buy_shares and sell_shares call, whatever its amount, fails with
\* MarketNotActive, and no step taken from such a state changes any
\* Position's yes_shares or no_shares or the market's total_yes_shares or
\* total_no_shares.
C16_TradingOnlyWhileActive ==
    /\ []TradesRejectedUnlessActive
    /\ [][market.status \in {"Resolved", "Cancelled"} =>
            /\ \A u \in Users :
                /\ position'[u].yes_shares = position[u].yes_shares
                /\ position'[u].no_shares = position[u].no_shares
            /\ market'.total_yes_shares = market.total_yes_shares
            /\ market'.total_no_shares = market.total_no_shares
      ]_vars

\* A Cancelled market on which a buy and a sell would pass every check but
\* the status check, with the trade actions still within their bound.
C16_Witness ==
    /\ market.status = "Cancelled"
    /\ pool.total_fees_collected < MaxFees
    /\ \E u \in Users, s \in Sides, b \in Sides :
        LET c == [Ctx(u) EXCEPT !.market.status = "Active"]
        IN  /\ BuyShares(c, u, b, 1200, 0).err = "Ok"
            /\ SellShares(c, u, s, 1070, 0).err = "Ok"
            /\ BuyShares(Ctx(u), u, b, 1200, 0).err = "MarketNotActive"
            /\ SellShares(Ctx(u), u, s, 1070, 0).err = "MarketNotActive"

\* Amounts on both sides of the largest trade for total_liquidity = 1,999
\* (199) and = 20,000 (2,000), besides the amounts the buys are made with.
C17Amounts == BuyAmounts \cup {199, 200, 2000}

\* C17 as stated (Max trade size): every buy_shares with
\* amount_in > total_liquidity * 1000 / 10000 (integer division) fails with
\* TradeExceedsMaxSize, and no successful buy has amount_in above that bound.
C17_MaxTradeSize ==
    "pool" \in accounts =>
        \A u \in Users, s \in Sides, a \in C17Amounts, m \in MinSharesOut :
            LET r == BuyShares(Ctx(u), u, s, a, m)
                bound == (pool.total_liquidity * 1000) \div 10000
            IN  /\ a > bound => r.err = "TradeExceedsMaxSize"
                /\ r.err = "Ok" => a <= bound

\* C17 as amended: every buy_shares on an Active market with
\* amount_in > total_liquidity * 1000 / 10000 (integer division) fails with
\* TradeExceedsMaxSize; on a Resolved or Cancelled market it fails with
\* MarketNotActive, the status being checked first; no successful buy has
\* amount_in above that bound.
C17_MaxTradeSizeAmended ==
    "pool" \in accounts =>
        \A u \in Users, s \in Sides, a \in C17Amounts, m \in MinSharesOut :
            LET r == BuyShares(Ctx(u), u, s, a, m)
                bound == (pool.total_liquidity * 1000) \div 10000
            IN  /\ a > bound =>
                    r.err = IF market.status = "Active"
                            THEN "TradeExceedsMaxSize" ELSE "MarketNotActive"
                /\ r.err = "Ok" => a <= bound

\* An Active market whose pool holds total_liquidity = 1,999 with both
\* reserves positive: a buy of 200 is above the bound 199.
C17_Witness ==
    /\ market.status = "Active"
    /\ pool.total_liquidity = 1999
    /\ pool.yes_reserve > 0 /\ pool.no_reserve > 0
    /\ BuyShares(Ctx("u1"), "u1", "Yes", 200, 0).err = "TradeExceedsMaxSize"
    /\ BuyShares(Ctx("u1"), "u1", "Yes", 199, 0).err # "TradeExceedsMaxSize"

\* Positive amounts: those the trades are made with, the smallest one, and
\* the largest buy allowed at total_liquidity = 1,999.
C18BuyAmounts == (BuyAmounts \cup {1, 199}) \ {0}

C18SellAmounts == (SellShareAmounts \cup {1}) \ {0}

\* An Active market whose pool has a reserve of 0.
EmptyReserveCase ==
    /\ "pool" \in accounts
    /\ market.status = "Active"
    /\ (pool.yes_reserve = 0 \/ pool.no_reserve = 0)

\* C18 as stated: on an Active market with yes_reserve = 0 or no_reserve = 0
\* every buy_shares and sell_shares call with a positive amount fails with
\* PoolNotInitialized.
C18_EmptyReserveRejected ==
    EmptyReserveCase =>
        \A u \in Users, s \in Sides :
            /\ \A a \in C18BuyAmounts, m \in MinSharesOut :
                BuyShares(Ctx(u), u, s, a, m).err = "PoolNotInitialized"
            /\ \A a \in C18SellAmounts, m \in SellMinOut :
                SellShares(Ctx(u), u, s, a, m).err = "PoolNotInitialized"

\* C18 as amended: on an Active market with yes_reserve = 0 or no_reserve = 0
\* every buy_shares and sell_shares call with a positive amount fails and
\* changes nothing: a buy with TradeExceedsMaxSize when amount_in is above
\* total_liquidity * 1000 / 10000 and with PoolNotInitialized otherwise, a
\* sell with InsufficientShares when the caller holds fewer than shares_in
\* shares of the side and with PoolNotInitialized otherwise.
C18_EmptyReserveRejectedAmended ==
    EmptyReserveCase =>
        \A u \in Users, s \in Sides :
            /\ \A a \in C18BuyAmounts, m \in MinSharesOut :
                LET r == BuyShares(Ctx(u), u, s, a, m)
                IN  /\ r.err =
                        IF a > (pool.total_liquidity * 1000) \div 10000
                        THEN "TradeExceedsMaxSize" ELSE "PoolNotInitialized"
                    /\ r.ctx = Ctx(u)
            /\ \A a \in C18SellAmounts, m \in SellMinOut :
                LET r == SellShares(Ctx(u), u, s, a, m)
                    held == IF s = "Yes" THEN position[u].yes_shares
                            ELSE position[u].no_shares
                IN  /\ r.err = IF held < a THEN "InsufficientShares"
                               ELSE "PoolNotInitialized"
                    /\ r.ctx = Ctx(u)

\* remove_liquidity has saturated yes_reserve to 0 while liquidity, the other
\* reserve and a holder of Yes shares remain.
C18_Witness ==
    /\ EmptyReserveCase
    /\ pool.yes_reserve = 0
    /\ pool.no_reserve > 0
    /\ pool.total_liquidity = 1999
    /\ \E u \in Users :
        /\ position[u].yes_shares >= 1070
        /\ SellShares(Ctx(u), u, "Yes", 1070, 0).err = "PoolNotInitialized"
        /\ BuyShares(Ctx(u), u, "No", 199, 0).err = "PoolNotInitialized"

\* The amounts add_liquidity is called with, and the smallest one.
C19Amounts == AddAmounts \cup {1}

\* The contexts add_liquidity is checked on: the caller's accounts, and the
\* same with half as many LP tokens in supply as the pool holds liquidity.
C19Contexts(u) ==
    {Ctx(u), [Ctx(u) EXCEPT !.pool.lp_token_supply = pool.total_liquidity \div 2]}

\* The effects of a successful add_liquidity(a, m) from context c to r.
C19Effects(c, r, a) ==
    LET minted == IF c.pool.total_liquidity = 0 THEN a
                  ELSE (a * c.pool.lp_token_supply) \div c.pool.total_liquidity
    IN  /\ r.out = minted
        /\ r.ctx.pool.yes_reserve = c.pool.yes_reserve + (a \div 2)
        /\ r.ctx.pool.no_reserve = c.pool.no_reserve + (a - (a \div 2))
        /\ r.ctx.pool.total_liquidity = c.pool.total_liquidity + a
        /\ r.ctx.pool.lp_token_supply = c.pool.lp_token_supply + minted
        /\ r.ctx.lp_position.lp_tokens = c.lp_position.lp_tokens + minted

\* C19 as stated (Add liquidity): add_liquidity(amount, min_lp_tokens) fails
\* with InvalidAmount when amount = 0 and with SlippageExceeded when the LP
\* tokens to mint (amount if total_liquidity = 0, else
\* floor(amount * lp_token_supply / total_liquidity)) are fewer than
\* min_lp_tokens; a successful call mints exactly that quantity, adds
\* floor(amount / 2) to yes_reserve and the rest to no_reserve, amount to
\* total_liquidity, and the minted quantity to lp_token_supply and to the
\* caller's lp_tokens.
C19_AddLiquidity ==
    "pool" \in accounts =>
        \A u \in Users, a \in C19Amounts, m \in MinLpTokens :
            \A c \in C19Contexts(u) :
                LET r == AddLiquidity(c, u, a, m)
                    minted == IF c.pool.total_liquidity = 0 THEN a
                              ELSE (a * c.pool.lp_token_supply)
                                       \div c.pool.total_liquidity
                IN  /\ a = 0 => r.err = "InvalidAmount"
                    /\ (a > 0 /\ minted < m) => r.err = "SlippageExceeded"
                    /\ r.err = "Ok" => C19Effects(c, r, a)

\* C19 as amended: add_liquidity(amount, min_lp_tokens) fails with
\* MarketNotActive when the market is not Active, else with InvalidAmount
\* when amount = 0, else with SlippageExceeded when the LP tokens to mint are
\* fewer than min_lp_tokens, and changes nothing when it fails; otherwise it
\* succeeds with the effects stated.
C19_AddLiquidityAmended ==
    "pool" \in accounts =>
        \A u \in Users, a \in C19Amounts, m \in MinLpTokens :
            \A c \in C19Contexts(u) :
                LET r == AddLiquidity(c, u, a, m)
                    minted == IF c.pool.total_liquidity = 0 THEN a
                              ELSE (a * c.pool.lp_token_supply)
                                       \div c.pool.total_liquidity
                IN  /\ r.err = IF market.status # "Active" THEN "MarketNotActive"
                               ELSE IF a = 0 THEN "InvalidAmount"
                               ELSE IF minted < m THEN "SlippageExceeded"
                               ELSE "Ok"
                    /\ r.err # "Ok" => r.ctx = c
                    /\ r.err = "Ok" => C19Effects(c, r, a)

\* After a trade and a withdrawal that left total_liquidity = 1,999, a second
\* provider has added the odd amount 18,001.
C19_Witness ==
    /\ market.status = "Active"
    /\ pool.total_liquidity = 20000
    /\ pool.lp_token_supply = 20000
    /\ pool.total_fees_collected > 0
    /\ pool.no_reserve - pool.yes_reserve > 1
    /\ \E u \in Users, v \in Users :
        /\ lp_position[u].lp_tokens = 1999
        /\ lp_position[v].lp_tokens = 18001

\* The LP token quantities remove_liquidity is called with, and the smallest
\* one.
C20Amounts == RemoveLpTokens \cup {1}

\* The contexts remove_liquidity is checked on: the caller's accounts, the
\* same with an LP token supply of 0, and the same with an empty vault.
C20Contexts(u) ==
    {Ctx(u), [Ctx(u) EXCEPT !.pool.lp_token_supply = 0],
     [Ctx(u) EXCEPT !.vault = 0]}

\* The error remove_liquidity(lp, m) returns on context c: the checks the
\* claim lists, in the order it lists them, after the one on lp = 0.
C20Error(c, lp, m) ==
    IF lp = 0 THEN "InvalidAmount"
    ELSE IF c.lp_position.lp_tokens < lp THEN "InsufficientShares"
    ELSE IF c.pool.lp_token_supply = 0 THEN "InsufficientLiquidity"
    ELSE LET amount_out ==
                 (lp * c.pool.total_liquidity) \div c.pool.lp_token_supply
         IN  IF amount_out < m THEN "SlippageExceeded"
             ELSE IF c.vault < amount_out THEN "InsufficientVaultFunds"
             ELSE "Ok"

\* What a successful remove_liquidity(lp) does from context c to r, apart
\* from the reserves.
C20Payout(c, r, lp) ==
    LET amount_out == (lp * c.pool.total_liquidity) \div c.pool.lp_token_supply
    IN  /\ r.out = amount_out
        /\ r.ctx.vault = c.vault - amount_out
        /\ r.ctx.pool.total_liquidity = c.pool.total_liquidity - amount_out
        /\ r.ctx.pool.lp_token_supply = c.pool.lp_token_supply - lp
        /\ r.ctx.lp_position.lp_tokens = c.lp_position.lp_tokens - lp

\* C20 as stated (Remove liquidity): remove_liquidity fails with
\* InsufficientShares, InsufficientLiquidity, SlippageExceeded or
\* InsufficientVaultFunds under the conditions listed; on success it pays
\* amount_out = floor(lp_tokens * total_liquidity / lp_token_supply) from the
\* vault, decrements total_liquidity by amount_out, lp_token_supply and the
\* caller's lp_tokens by lp_tokens, and each reserve by amount_out / 2,
\* saturating at 0.
C20_RemoveLiquidity ==
    "pool" \in accounts =>
        \A u \in Users, lp \in C20Amounts, m \in MinAmountsOut :
            \A c \in C20Contexts(u) :
                LET r == RemoveLiquidity(c, u, lp, m)
                    half == ((lp * c.pool.total_liquidity)
                                \div c.pool.lp_token_supply) \div 2
                IN  /\ r.err = C20Error(c, lp, m)
                    /\ r.err = "Ok" =>
                        /\ C20Payout(c, r, lp)
                        /\ r.ctx.pool.yes_reserve =
                            IF c.pool.yes_reserve >= half
                            THEN c.pool.yes_reserve - half ELSE 0
                        /\ r.ctx.pool.no_reserve =
                            IF c.pool.no_reserve >= half
                            THEN c.pool.no_reserve - half ELSE 0

\* C20 as amended: the same, except that yes_reserve is decremented by
\* floor(amount_out / 2) and no_reserve by amount_out - floor(amount_out / 2),
\* each saturating at 0; lp_tokens = 0 fails with InvalidAmount; a failed call
\* changes nothing; and on the accounts of a reachable state the call never
\* fails with InsufficientLiquidity, a caller never holding LP tokens of a
\* pool whose lp_token_supply is 0.
C20_RemoveLiquidityAmended ==
    "pool" \in accounts =>
        \A u \in Users, lp \in C20Amounts, m \in MinAmountsOut :
            /\ \A c \in C20Contexts(u) :
                LET r == RemoveLiquidity(c, u, lp, m)
                    amount_out == (lp * c.pool.total_liquidity)
                                      \div c.pool.lp_token_supply
                    half == amount_out \div 2
                    rest == amount_out - half
                IN  /\ r.err = C20Error(c, lp, m)
                    /\ r.err # "Ok" => r.ctx = c
                    /\ r.err = "Ok" =>
                        /\ C20Payout(c, r, lp)
                        /\ r.ctx.pool.yes_reserve =
                            IF c.pool.yes_reserve >= half
                            THEN c.pool.yes_reserve - half ELSE 0
                        /\ r.ctx.pool.no_reserve =
                            IF c.pool.no_reserve >= rest
                            THEN c.pool.no_reserve - rest ELSE 0
            /\ RemoveLiquidity(Ctx(u), u, lp, m).err # "InsufficientLiquidity"

\* The initial provider has withdrawn 18,001 LP tokens from the pool
\* initialize_pool(10,000) set up: amount_out = 18,001 is odd, and the
\* reserves are left at 1,000 and 999.
C20_Witness ==
    /\ pool.total_liquidity = 1999
    /\ pool.lp_token_supply = 1999
    /\ pool.yes_reserve = 1000
    /\ pool.no_reserve = 999
    /\ vault = 1999
    /\ \E u \in Users : lp_position[u].lp_tokens = 1999

\* The reserve of side s in pool p.  A buy of side s pays into the reserve of
\* the other side and takes shares out of the reserve of s; a sell does the
\* reverse.
ReserveOf(p, s) == IF s = "Yes" THEN p.yes_reserve ELSE p.no_reserve

OtherSide(s) == IF s = "Yes" THEN "No" ELSE "Yes"

\* A successful buy adds floor(amount_in * 30 / 10000) to
\* total_fees_collected and amount_in minus that fee to reserve_in; a
\* successful sell pays the output of the swap minus floor(output * 30 / 10000)
\* and adds that fee to total_fees_collected.
TradesBookFees ==
    \A u \in Users, s \in Sides :
        /\ \A a \in BuyAmounts, m \in MinSharesOut :
            LET r == BuyShares(Ctx(u), u, s, a, m)
                fee == (a * 30) \div 10000
            IN  r.err = "Ok" =>
                    /\ r.ctx.pool.total_fees_collected =
                        pool.total_fees_collected + fee
                    /\ ReserveOf(r.ctx.pool, OtherSide(s)) =
                        ReserveOf(pool, OtherSide(s)) + (a - fee)
                    /\ r.ctx.vault = vault + a
        /\ \A a \in SellShareAmounts, m \in SellMinOut :
            LET r == SellShares(Ctx(u), u, s, a, m)
                gross_out == ReserveOf(pool, OtherSide(s))
                                 - ReserveOf(r.ctx.pool, OtherSide(s))
                fee == (gross_out * 30) \div 10000
            IN  r.err = "Ok" =>
                    /\ r.out = gross_out - fee
                    /\ r.ctx.vault = vault - (gross_out - fee)
                    /\ r.ctx.pool.total_fees_collected =
                        pool.total_fees_collected + fee

\* C21 (Fee accounting): a successful buy adds exactly
\* floor(amount_in * 30 / 10000) to total_fees_collected and only amount_in
\* minus that fee enters reserve_in; a successful sell takes the fee
\* floor(gross_out * 30 / 10000) from the output of the swap, pays the seller
\* gross_out minus fee and adds the fee to total_fees_collected; no step makes
\* total_fees_collected smaller.
C21_FeeAccounting ==
    /\ []TradesBookFees
    /\ [][pool'.total_fees_collected >= pool.total_fees_collected]_vars

\* A buy of 1,200 (fee 3) and the sale of its 1,070 shares (gross output
\* 1,199, fee 3, paid 1,196) have succeeded on the initial pool.
C21_Witness ==
    /\ pool.total_fees_collected = 6
    /\ vault = 20004
    /\ ReserveOf(pool, "Yes") + ReserveOf(pool, "No") = 19998

SharesOf(pos, s) == IF s = "Yes" THEN pos.yes_shares ELSE pos.no_shares

AvgPriceOf(pos, s) == IF s = "Yes" THEN pos.yes_avg_price ELSE pos.no_avg_price

\* floor(reserve * 10^6 / total) by long division in two steps of 1000.
PriceQuery(reserve, total) ==
    LET t1 == reserve * 1000
    IN  (t1 \div total) * 1000 + (((t1 % total) * 1000) \div total)

\* x = floor((old_avg * old_qty + p * qty) / (old_qty + qty)), stated on the
\* remainder (old_avg - x) * old_qty + (p - x) * qty, which lies in
\* [0, old_qty + qty).
IsWeightedMean(x, old_avg, old_qty, p, qty) ==
    LET rem == (old_avg - x) * old_qty + (p - x) * qty
    IN  0 <= rem /\ rem < old_qty + qty

\* The ledger entries of every trade in the current state.
TradesKeepLedger ==
    \A u \in Users, s \in Sides :
        /\ \A a \in BuyAmounts, m \in MinSharesOut :
            LET r == BuyShares(Ctx(u), u, s, a, m)
                old == position[u]
                new == r.ctx.position
                p == PriceQuery(ReserveOf(r.ctx.pool, OtherSide(s)),
                                r.ctx.pool.yes_reserve + r.ctx.pool.no_reserve)
            IN  r.err = "Ok" =>
                    /\ SharesOf(new, s) = SharesOf(old, s) + r.out
                    /\ IsWeightedMean(AvgPriceOf(new, s), AvgPriceOf(old, s),
                                      SharesOf(old, s), p, r.out)
                    /\ SharesOf(new, OtherSide(s)) = SharesOf(old, OtherSide(s))
                    /\ AvgPriceOf(new, OtherSide(s)) =
                        AvgPriceOf(old, OtherSide(s))
                    /\ AvgPriceOf(new, s) <= 1000000
        /\ \A a \in SellShareAmounts, m \in SellMinOut :
            LET r == SellShares(Ctx(u), u, s, a, m)
                old == position[u]
                new == r.ctx.position
            IN  r.err = "Ok" =>
                    /\ SharesOf(new, s) = SharesOf(old, s) - a
                    /\ SharesOf(new, OtherSide(s)) = SharesOf(old, OtherSide(s))
                    /\ new.yes_avg_price = old.yes_avg_price
                    /\ new.no_avg_price = old.no_avg_price

\* C22 (Position ledger): a successful buy of side S yielding shares_out sets
\* the position's S average price to
\* floor((old_avg * old_qty + p * shares_out) / (old_qty + shares_out)), p
\* being floor(opposite reserve * 10^6 / (yes_reserve + no_reserve)) on the
\* reserves after the trade, adds shares_out to the S shares and leaves the
\* other side's shares and average price unchanged; a successful sell of side
\* S decrements only the S shares, by shares_in, and changes neither average
\* price.  Every stored average price is at most 10^6.
C22_PositionLedger ==
    /\ TradesKeepLedger
    /\ \A u \in Users :
        /\ position[u].yes_avg_price <= 1000000
        /\ position[u].no_avg_price <= 1000000

\* Both users hold shares bought at different prices, and a further buy by a
\* holder on the side already held would succeed and average the two prices.
C22_Witness ==
    \E u \in Users, v \in Users, s \in Sides :
        /\ SharesOf(position[u], s) >= 1000
        /\ AvgPriceOf(position[u], s) > 500000
        /\ SharesOf(position[v], OtherSide(s)) >= 1000
        /\ AvgPriceOf(position[v], OtherSide(s)) > 500000
        /\ LET r == BuyShares(Ctx(u), u, s, 1200, 0)
           IN  /\ r.err = "Ok"
               /\ AvgPriceOf(r.ctx.position, s) # AvgPriceOf(position[u], s)

\* The sum of f[u] over the users in S.
RECURSIVE SumOver(_, _)
SumOver(f, S) ==
    IF S = {} THEN 0
    ELSE LET u == CHOOSE x \in S : TRUE
         IN  f[u] + SumOver(f, S \ {u})

\* The winning-side shares of the positions that have not claimed yet, on a
\* Resolved market.
UnclaimedWinnings ==
    LET outcome == CHOOSE o \in market.outcome : TRUE
    IN  SumOver([u \in Users |->
                    IF position[u].claimed THEN 0
                    ELSE WinningShares(position[u], outcome)], Users)

\* C23 (Winner solvency): in every reachable state of a Resolved market the
\* vault holds at least the winning-side shares of the positions that have
\* not claimed yet, and claim_winnings by the owner of an unclaimed position
\* with winning shares does not fail with InsufficientVaultFunds.
C23_WinnerSolvency ==
    market.status = "Resolved" =>
        /\ vault >= UnclaimedWinnings
        /\ \A u \in Users :
            ClaimWinnings(Ctx(u), u).err # "InsufficientVaultFunds"

\* C24 (LP solvency): in every reachable state the vault holds at least
\* total_liquidity, and no remove_liquidity call fails with
\* InsufficientVaultFunds.
C24_LpSolvency ==
    "pool" \in accounts =>
        /\ vault >= pool.total_liquidity
        /\ \A u \in Users, lp \in RemoveLpTokens, m \in MinAmountsOut :
            RemoveLiquidity(Ctx(u), u, lp, m).err # "InsufficientVaultFunds"

\* The amounts a round trip is started with: those the buys are made with and
\* others up to the largest trade of a pool of 20,000.
C25Amounts == BuyAmounts \cup {200, 500, 999, 1001, 1500, 1999, 2000}

\* C25 (No free round trip): in every reachable state, for every user, side
\* and amount_in, if buy_shares succeeds and the sell_shares of all the
\* shares it yielded, made on the accounts the buy left, succeeds too, the
\* amount the sell pays is not greater than amount_in.
C25_NoFreeRoundTrip ==
    \A u \in Users, s \in Sides, a \in C25Amounts :
        LET b == BuyShares(Ctx(u), u, s, a, 0)
        IN  b.err = "Ok" =>
                LET r == SellShares(b.ctx, u, s, b.out, 0)
                IN  r.err = "Ok" => r.out <= a /\ r.ctx.vault >= vault

\* An Active pool whose reserves a trade has made unequal, on which a round
\* trip succeeds on either side and returns less than was paid.
C25_Witness ==
    /\ market.status = "Active"
    /\ pool.total_fees_collected > 0
    /\ pool.yes_reserve # pool.no_reserve
    /\ \A s \in Sides :
        \E a \in C25Amounts :
            LET b == BuyShares(Ctx("u2"), "u2", s, a, 0)
            IN  /\ b.err = "Ok"
                /\ SellShares(b.ctx, "u2", s, b.out, 0).err = "Ok"
                /\ SellShares(b.ctx, "u2", s, b.out, 0).out < a

\* C26 (LP tokens are 1:1 with liquidity): in every reachable state
\* lp_token_supply = total_liquidity, every successful add_liquidity mints
\* exactly amount LP tokens and every successful remove_liquidity returns
\* exactly lp_tokens units of collateral, whatever fees were collected.
C26_LpTokensOneToOne ==
    /\ pool.lp_token_supply = pool.total_liquidity
    /\ "pool" \in accounts =>
        \A u \in Users :
            /\ \A a \in AddAmounts, m \in MinLpTokens :
                LET r == AddLiquidity(Ctx(u), u, a, m)
                IN  r.err = "Ok" =>
                        /\ r.out = a
                        /\ r.ctx.lp_position.lp_tokens =
                            lp_position[u].lp_tokens + a
            /\ \A lp \in RemoveLpTokens, m \in MinAmountsOut :
                LET r == RemoveLiquidity(Ctx(u), u, lp, m)
                IN  r.err = "Ok" =>
                        /\ r.out = lp
                        /\ r.ctx.vault = vault - lp

\* Fees have been collected, all liquidity was withdrawn, and a deposit of
\* 18,001 was then credited with 18,001 LP tokens.
C26_Witness ==
    /\ pool.total_fees_collected > 0
    /\ pool.total_liquidity = 18001
    /\ pool.lp_token_supply = 18001
    /\ vault > 18001
    /\ \E u \in Users : lp_position[u].lp_tokens = 18001


\* C27 (LP token supply consistency): in every reachable state the sum of
\* LPPosition.lp_tokens over all users of the pool equals
\* Pool.lp_token_supply.
C27_LpSupplyConsistency ==
    SumOver([u \in Users |-> lp_position[u].lp_tokens], Users)
        = pool.lp_token_supply

\* Two providers hold LP tokens after deposits and withdrawals by both:
\* 1,999 left to the creator, 8,001 left of a deposit of 18,001.
C27_Witness ==
    /\ "pool" \in accounts
    /\ pool.lp_token_supply = 10000
    /\ \E u, v \in Users :
        /\ lp_position[u].lp_tokens = 1999
        /\ lp_position[v].lp_tokens = 8001


\* Market.total_yes_shares or total_no_shares, by side.
TotalSharesOf(m, s) ==
    IF s = "Yes" THEN m.total_yes_shares ELSE m.total_no_shares

\* C28 (share supply consistency): in every reachable state
\* Market.total_yes_shares is the sum of yes_shares over the Positions of the
\* market and total_no_shares the sum of no_shares, so that in every
\* successful sell_shares the saturating subtractions subtract shares_in
\* exactly from the market total and from the seller's position.
C28_ShareSupplyConsistency ==
    /\ \A s \in Sides :
        TotalSharesOf(market, s) =
            SumOver([u \in Users |-> SharesOf(position[u], s)], Users)
    /\ \A u \in Users, s \in Sides, n \in SellShareAmounts, m \in SellMinOut :
        LET r == SellShares(Ctx(u), u, s, n, m)
        IN  r.err = "Ok" =>
                /\ TotalSharesOf(market, s) >= n
                /\ SharesOf(position[u], s) >= n
                /\ TotalSharesOf(r.ctx.market, s) = TotalSharesOf(market, s) - n
                /\ SharesOf(r.ctx.position, s) = SharesOf(position[u], s) - n

\* A user bought 1,070 Yes shares and sold 800 of them: the 270 shares left in
\* the position are the market's total, and fees were booked on both trades.
C28_Witness ==
    /\ market.total_yes_shares = 270
    /\ market.total_no_shares = 0
    /\ pool.total_fees_collected > 3
    /\ \E u \in Users :
        /\ position[u].yes_shares = 270
        /\ \A v \in Users \ {u} : position[v].yes_shares = 0

====
